---- MODULE Spec2Model ----
(***************************************************************************)
(* Model of simple_ado.ADOClient (src/simple_ado/__init__.py): the facade  *)
(* operations verify_access, create_pull_request, list_all_pull_requests   *)
(* and custom_get, and the helper _canonicalize_branch_name.               *)
(*                                                                         *)
(* Strings that the code inspects (branch names, query parameters) are     *)
(* sequences of one-character strings.  An optional argument is None       *)
(* (the empty tuple) or Some(x) (a one-element tuple).  A URL is a record  *)
(* of the parts the f-string is assembled from.                            *)
(***************************************************************************)
EXTENDS Integers, Sequences, FiniteSets, TLC

\* ---------------------------------------------------------------- bounds
MaxPages == 3        \* longest script of non-empty pages a server serves
MaxTail == 1         \* longest suffix appended to a branch-name stem

\* ------------------------------------------------------ program constants
Top == 100           \* "$top=100"
SkipStep == 100      \* "offset += 100"

\* the loop of list_all_pull_requests is unbounded; the model stops a server
\* that never serves an empty page after this many requests
MaxRequests == MaxPages + 2

None == <<>>
Some(x) == <<x>>

\* ------------------------------------------------------------ branch names
Prefix == <<"r", "e", "f", "s", "/", "h", "e", "a", "d", "s", "/">>
TagsPrefix == <<"r", "e", "f", "s", "/", "t", "a", "g", "s", "/">>

Main == <<"m", "a", "i", "n">>

TailChars == {"m", "/"}

RECURSIVE SeqsUpTo(_, _)
SeqsUpTo(S, n) ==
    IF n = 0 THEN {<<>>}
    ELSE LET shorter == SeqsUpTo(S, n - 1)
         IN  shorter \cup {Append(s, c) : s \in shorter, c \in S}

Stems ==
    {SubSeq(Prefix, 1, k) : k \in 0..Len(Prefix)}
        \cup {TagsPrefix, Prefix \o Prefix, TagsPrefix \o Prefix}

\* inputs of the canonicalization: every prefix of "refs/heads/" (the empty
\* string, "refs/heads" and "refs/heads/" included), another namespace, a
\* doubled prefix, each followed by a short suffix
BranchNames ==
    {s \o t : s \in Stems, t \in SeqsUpTo(TailChars, MaxTail)}
        \cup {Main, Prefix \o Main}

\* the branch names the request-issuing operations are called with
CallBranchNames ==
    {Main, Prefix \o Main, SubSeq(Prefix, 1, 10), TagsPrefix \o Main}

startswith(s, p) == Len(s) >= Len(p) /\ SubSeq(s, 1, Len(p)) = p

_canonicalize_branch_name_always(branch_name) == Prefix \o branch_name

_canonicalize_branch_name_no_slash(branch_name) ==
    IF ~startswith(branch_name, SubSeq(Prefix, 1, 10))
    THEN Prefix \o branch_name
    ELSE branch_name

_canonicalize_branch_name(branch_name) ==
    IF ~startswith(branch_name, Prefix)
    THEN Prefix \o branch_name
    ELSE branch_name

\* ------------------------------------------------- HTTP client (interface)
Tenant == "tenant"
ProjectId == "project"
RepositoryId == "repo"

base_url(is_default_collection, is_project, is_internal) ==
    <<"https:", Tenant>>
        \o (IF is_default_collection THEN <<"DefaultCollection">> ELSE <<>>)
        \o (IF is_project THEN <<ProjectId>> ELSE <<>>)
        \o (IF is_internal THEN <<"_api">> ELSE <<>>)
        \o <<"_apis">>

DefaultBaseUrl == base_url(TRUE, TRUE, FALSE)

\* what the transport does with one request: it fails (get/post raise an
\* Http-failure) or it hands back a raw response
TransportError == [kind |-> "transport_error"]
Response(status, parseable, body) ==
    [kind |-> "response", status |-> status, parseable |-> parseable, body |-> body]

Envelope(value) == [hasValue |-> TRUE, value |-> value]
BareObject == [hasValue |-> FALSE, id |-> 7]

HttpFailure == "ADOHTTPException"
DecodeFailure == "ADODecodeException"
ADOException == {HttpFailure, DecodeFailure}

\* get / post: raise on a transport failure, else return the raw response
TransportRaises(reply) == reply.kind = "transport_error"

\* decode_response: raises on a failure status or an unparseable body
DecodeRaises(raw) == raw.status >= 400 \/ ~raw.parseable
decode_response(raw) == raw.body

extract_value(body) == IF body.hasValue THEN body.value ELSE body

\* replies that make a call fail, and replies of a single successful call
FailReplies ==
    {TransportError,
     Response(500, TRUE, BareObject),
     Response(404, TRUE, BareObject),
     Response(200, FALSE, BareObject)}

OkReplies ==
    {Response(200, TRUE, Envelope(<<>>)),
     Response(200, TRUE, Envelope(<<1, 2, 3>>)),
     Response(200, TRUE, BareObject)}

Replies == FailReplies \cup OkReplies

\* the ways one page request of the fake server fails: the transport fails,
\* the status is a failure, the body does not parse
PageFailReplies ==
    {TransportError, Response(500, TRUE, BareObject), Response(200, FALSE, BareObject)}

\* urllib.parse.urlencode over an ordered mapping of strings: every key and
\* value goes through quote_plus, pairs are joined by "=" and "&"
quote_char(c) ==
    IF c = " " THEN <<"+">>
    ELSE IF c = "&" THEN <<"%", "2", "6">>
    ELSE IF c = "=" THEN <<"%", "3", "D">>
    ELSE <<c>>

RECURSIVE quote_plus(_)
quote_plus(s) ==
    IF s = <<>> THEN <<>> ELSE quote_char(Head(s)) \o quote_plus(Tail(s))

RECURSIVE urlencode(_)
urlencode(parameters) ==
    IF parameters = <<>> THEN <<>>
    ELSE LET pair == quote_plus(Head(parameters)[1]) \o <<"=">>
                        \o quote_plus(Head(parameters)[2])
         IN  IF Len(parameters) = 1 THEN pair
             ELSE pair \o <<"&">> \o urlencode(Tail(parameters))

ParameterDicts ==
    {<<>>,
     << <<(<<"k">>), (<<"a", " ", "b">>)>> >>,
     << <<(<<"k">>), (<<"a", "&", "b">>)>>, <<(<<"q", "=">>), (<<"v">>)>> >>}

UrlFragments == {"git/repositories", "wit/workitems"}

\* the exception a reply makes the get-then-decode sequence raise, or None
RaisedBy(reply) ==
    IF TransportRaises(reply) THEN Some(HttpFailure)
    ELSE IF DecodeRaises(reply) THEN Some(DecodeFailure)
    ELSE None

\* --------------------------------------------------- paginated fake server
PageSizes == {37, Top, Top + 1}

PageItems(i, n) == [j \in 1..n |-> <<i, j>>]

RECURSIVE ScriptsOfLen(_)
ScriptsOfLen(n) ==
    IF n = 0 THEN {<<>>}
    ELSE {Append(s, z) : s \in ScriptsOfLen(n - 1), z \in PageSizes}

Scripts == UNION {ScriptsOfLen(n) : n \in 0..MaxPages}

\* a server serves the pages of its script in request order, fails at request
\* failAt (0: never) with failReply, and after the script serves empty pages
\* ("empty") or one-item pages for ever ("nonempty")
Servers ==
    {[pages |-> p, tail |-> t, failAt |-> f, failReply |-> r] :
        p \in Scripts, t \in {"empty", "nonempty"},
        f \in 1..MaxRequests, r \in PageFailReplies}
    \cup
    {[pages |-> p, tail |-> t, failAt |-> 0, failReply |-> TransportError] :
        p \in Scripts, t \in {"empty", "nonempty"}}

ServedPage(srv, i) ==
    IF i <= Len(srv.pages) THEN PageItems(i, srv.pages[i])
    ELSE IF srv.tail = "empty" THEN <<>>
    ELSE PageItems(i, 1)

ServerReply(srv, i) ==
    IF i = srv.failAt THEN srv.failReply
    ELSE Response(200, TRUE, Envelope(ServedPage(srv, i)))

\* ------------------------------------------------------------------- state
VARIABLES
    pc,         \* "idle", "list_loop", "returned" or "raised"
    op,         \* the operation called last
    args,       \* its arguments
    server,     \* the fake server list_all_pull_requests runs against
    requests,   \* the requests the call has issued so far, in order
    decodes,    \* how many responses the call has decoded
    offset,     \* list_all_pull_requests: local offset
    all_prs,    \* list_all_pull_requests: local all_prs
    extracted,  \* list_all_pull_requests: the pages extracted so far
    result,     \* the value returned (when pc = "returned")
    exception   \* None, or Some(the exception raised to the caller)

vars ==
    <<pc, op, args, server, requests, decodes, offset, all_prs, extracted,
      result, exception>>

NoServer == [pages |-> <<>>, tail |-> "empty", failAt |-> 0, failReply |-> TransportError]

Init ==
    /\ pc = "idle"
    /\ op = "none"
    /\ args = None
    /\ server = NoServer
    /\ requests = <<>>
    /\ decodes = 0
    /\ offset = 0
    /\ all_prs = <<>>
    /\ extracted = <<>>
    /\ result = None
    /\ exception = None

\* the client keeps no state from one call to the next (the context, the
\* credentials and the HTTP client are fixed at construction), so a behaviour
\* is one call on a freshly constructed client
CanCall == pc = "idle"

NoLoopLocals ==
    /\ server' = NoServer
    /\ offset' = 0
    /\ all_prs' = <<>>
    /\ extracted' = <<>>

\* ------------------------------------------------ _canonicalize_branch_name
canonicalize(branch_name) ==
    /\ CanCall
    /\ op' = "canonicalize"
    /\ args' = [branch_name |-> branch_name]
    /\ requests' = <<>>
    /\ decodes' = 0
    /\ NoLoopLocals
    /\ result' = Some(_canonicalize_branch_name(branch_name))
    /\ exception' = None
    /\ pc' = "returned"

\* ------------------------------------------------------------ verify_access
VerifyUrl ==
    [base |-> DefaultBaseUrl, path |-> "git/repositories",
     query |-> [api_version |-> "1.0"]]

CaughtOnlyDecode(exc) == exc = DecodeFailure

\* "except ADOException"
Caught(exc) == exc \in ADOException

\* get, decode_response and extract_value run inside the try; extract_value
\* only selects a field of the decoded body and its value is discarded
verify_access(reply) ==
    /\ CanCall
    /\ op' = "verify_access"
    /\ args' = [reply |-> reply]
    /\ requests' = <<[verb |-> "GET", url |-> VerifyUrl]>>
    /\ decodes' = IF TransportRaises(reply) THEN 0 ELSE 1
    /\ NoLoopLocals
    /\ LET raised == RaisedBy(reply)
       IN  IF raised = None
           THEN /\ pc' = "returned"
                /\ result' = Some(TRUE)
                /\ exception' = None
           ELSE IF Caught(raised[1])
           THEN /\ pc' = "returned"
                /\ result' = Some(FALSE)
                /\ exception' = None
           ELSE /\ pc' = "raised"
                /\ result' = None
                /\ exception' = raised

\* ------------------------------------------------------ create_pull_request
SetKey(body, k, v) ==
    [x \in (DOMAIN body) \cup {k} |-> IF x = k THEN v ELSE body[x]]

ReviewersGivenEvenIfEmpty(reviewer_ids) == reviewer_ids # None

\* "reviewer_ids is not None and len(reviewer_ids) > 0"
ReviewersGiven(reviewer_ids) ==
    reviewer_ids # None /\ Len(reviewer_ids[1]) > 0

RequestBody(source_branch, target_branch, title, description, reviewer_ids) ==
    LET b0 == [sourceRefName |-> _canonicalize_branch_name(source_branch),
               targetRefName |-> _canonicalize_branch_name(target_branch)]
        b1 == IF title # None THEN SetKey(b0, "title", title[1]) ELSE b0
        b2 == IF description # None
              THEN SetKey(b1, "description", description[1]) ELSE b1
    IN  IF ReviewersGiven(reviewer_ids)
        THEN SetKey(b2, "reviewers",
                    [i \in 1..Len(reviewer_ids[1]) |-> [id |-> reviewer_ids[1][i]]])
        ELSE b2

CreateUrl ==
    [base |-> DefaultBaseUrl,
     path |-> <<"git", "repositories", RepositoryId, "pullRequests">>,
     query |-> [api_version |-> "5.1"]]

PostRequest(source_branch, target_branch, title, description, reviewer_ids) ==
    [verb |-> "POST", url |-> CreateUrl,
     json_data |-> RequestBody(source_branch, target_branch, title,
                               description, reviewer_ids)]

create_pull_request_retrying(source_branch, target_branch, title, description, reviewer_ids, reply) ==
    LET post == PostRequest(source_branch, target_branch, title, description,
                            reviewer_ids)
        raised == RaisedBy(reply)
    IN  /\ CanCall
        /\ op' = "create_pull_request"
        /\ args' = [source_branch |-> source_branch, target_branch |-> target_branch,
                    title |-> title, description |-> description,
                    reviewer_ids |-> reviewer_ids, reply |-> reply]
        /\ requests' = IF raised = None THEN <<post>> ELSE <<post, post>>
        /\ decodes' = IF TransportRaises(reply) THEN 0 ELSE 1
        /\ NoLoopLocals
        /\ IF raised = None
           THEN /\ pc' = "returned"
                /\ result' = Some(decode_response(reply))
                /\ exception' = None
           ELSE /\ pc' = "raised"
                /\ result' = None
                /\ exception' = raised

create_pull_request(source_branch, target_branch, title, description, reviewer_ids, reply) ==
    LET post == PostRequest(source_branch, target_branch, title, description,
                            reviewer_ids)
        raised == RaisedBy(reply)
    IN  /\ CanCall
        /\ op' = "create_pull_request"
        /\ args' = [source_branch |-> source_branch, target_branch |-> target_branch,
                    title |-> title, description |-> description,
                    reviewer_ids |-> reviewer_ids, reply |-> reply]
        /\ requests' = <<post>>
        /\ decodes' = IF TransportRaises(reply) THEN 0 ELSE 1
        /\ NoLoopLocals
        /\ IF raised = None
           THEN /\ pc' = "returned"
                /\ result' = Some(decode_response(reply))
                /\ exception' = None
           ELSE /\ pc' = "raised"
                /\ result' = None
                /\ exception' = raised

\* --------------------------------------------------- list_all_pull_requests
ListUrl(off, branch_name) ==
    [base |-> DefaultBaseUrl,
     path |-> <<"git", "repositories", RepositoryId, "pullRequests">>,
     query |-> [top |-> Top, skip |-> off,
                sourceRefName |->
                    IF branch_name # None
                    THEN Some(_canonicalize_branch_name(branch_name[1]))
                    ELSE None,
                api_version |-> "3.0-preview"]]

\* entry of the call: "offset = 0", "all_prs = []"
list_all_pull_requests(branch_name, srv) ==
    /\ CanCall
    /\ op' = "list_all_pull_requests"
    /\ args' = [branch_name |-> branch_name]
    /\ server' = srv
    /\ requests' = <<>>
    /\ decodes' = 0
    /\ offset' = 0
    /\ all_prs' = <<>>
    /\ extracted' = <<>>
    /\ result' = None
    /\ exception' = None
    /\ pc' = "list_loop"

LoopBreaksOnShortPage(page) == Len(page) < Top

\* "if len(extracted) == 0: break"
LoopBreaks(page) == Len(page) = 0

ExtendDroppingFirst(prs, page) == prs \o Tail(page)

\* "all_prs.extend(extracted)"
Extend(prs, page) == prs \o page

NextOffsetByPageLength(off, page) == off + Len(page)

\* "offset += 100"
NextOffset(off, page) == off + SkipStep

PageFailureReturnsPartial(exc) ==
    /\ pc' = "returned"
    /\ result' = Some(all_prs)
    /\ exception' = None

\* get or decode_response raised inside the loop: nothing catches it
PageFailure(exc) ==
    /\ pc' = "raised"
    /\ result' = None
    /\ exception' = Some(exc)

\* one iteration of "while True"
list_page ==
    /\ pc = "list_loop"
    /\ Len(requests) < MaxRequests
    /\ LET reply == ServerReply(server, Len(requests) + 1)
           raised == RaisedBy(reply)
       IN  /\ requests' = Append(requests,
                   [verb |-> "GET", url |-> ListUrl(offset, args.branch_name)])
           /\ decodes' = IF TransportRaises(reply) THEN decodes ELSE decodes + 1
           /\ IF raised # None
              THEN /\ PageFailure(raised[1])
                   /\ UNCHANGED <<offset, all_prs, extracted>>
              ELSE LET page == extract_value(decode_response(reply))
                   IN  /\ extracted' = Append(extracted, page)
                       /\ IF LoopBreaks(page)
                          THEN /\ pc' = "returned"
                               /\ result' = Some(all_prs)
                               /\ exception' = None
                               /\ UNCHANGED <<offset, all_prs>>
                          ELSE /\ all_prs' = Extend(all_prs, page)
                               /\ offset' = NextOffset(offset, page)
                               /\ UNCHANGED <<pc, result, exception>>
    /\ UNCHANGED <<op, args, server>>

\* --------------------------------------------------------------- custom_get
CustomUrl(url_fragment, parameters, is_default_collection, is_project, is_internal) ==
    [base |-> base_url(is_default_collection, is_project, is_internal),
     path |-> url_fragment,
     query |-> urlencode(parameters)]

custom_get_decoding(url_fragment, parameters, is_default_collection, is_project, is_internal, reply) ==
    /\ CanCall
    /\ op' = "custom_get"
    /\ args' = [url_fragment |-> url_fragment, parameters |-> parameters,
                is_default_collection |-> is_default_collection,
                is_project |-> is_project, is_internal |-> is_internal,
                reply |-> reply]
    /\ requests' = <<[verb |-> "GET",
                      url |-> CustomUrl(url_fragment, parameters,
                                        is_default_collection, is_project,
                                        is_internal)]>>
    /\ decodes' = IF TransportRaises(reply) THEN 0 ELSE 1
    /\ NoLoopLocals
    /\ IF RaisedBy(reply) # None
       THEN /\ pc' = "raised"
            /\ result' = None
            /\ exception' = RaisedBy(reply)
       ELSE /\ pc' = "returned"
            /\ result' = Some(reply)
            /\ exception' = None

custom_get(url_fragment, parameters, is_default_collection, is_project, is_internal, reply) ==
    /\ CanCall
    /\ op' = "custom_get"
    /\ args' = [url_fragment |-> url_fragment, parameters |-> parameters,
                is_default_collection |-> is_default_collection,
                is_project |-> is_project, is_internal |-> is_internal,
                reply |-> reply]
    /\ requests' = <<[verb |-> "GET",
                      url |-> CustomUrl(url_fragment, parameters,
                                        is_default_collection, is_project,
                                        is_internal)]>>
    /\ decodes' = 0
    /\ NoLoopLocals
    /\ IF TransportRaises(reply)
       THEN /\ pc' = "raised"
            /\ result' = None
            /\ exception' = Some(HttpFailure)
       ELSE /\ pc' = "returned"
            /\ result' = Some(reply)
            /\ exception' = None

\* ------------------------------------------------------------ specification
OptionalBranchNames == {None, Some(Main), Some(Prefix \o Main)}
Titles == {None, Some("title")}
Descriptions == {None, Some("description")}
ReviewerIdLists ==
    {None, Some(<<>>), Some(<<"a">>), Some(<<"a", "b">>), Some(<<"b", "a">>)}

Canonicalize == CanCall /\ \E b \in BranchNames : canonicalize(b)

VerifyAccess == CanCall /\ \E reply \in Replies : verify_access(reply)

CreatePullRequest ==
    CanCall /\ \E s \in CallBranchNames, t \in CallBranchNames, title \in Titles,
       description \in Descriptions, reviewer_ids \in ReviewerIdLists,
       reply \in Replies :
        create_pull_request(s, t, title, description, reviewer_ids, reply)

ListAllPullRequests ==
    CanCall /\ \E b \in OptionalBranchNames, srv \in Servers : list_all_pull_requests(b, srv)

CustomGet ==
    CanCall /\ \E f \in UrlFragments, p \in ParameterDicts, dc \in BOOLEAN, pr \in BOOLEAN,
       int \in BOOLEAN, reply \in Replies :
        custom_get(f, p, dc, pr, int, reply)

Next ==
    \/ Canonicalize
    \/ VerifyAccess
    \/ CreatePullRequest
    \/ ListAllPullRequests
    \/ list_page
    \/ CustomGet

Spec == Init /\ [][Next]_vars

\* the loop is synchronous code: an iteration that can run does run
FairSpec == Spec /\ WF_vars(list_page)

\* ================================================================== claims
IsList == op = "list_all_pull_requests"

\* the reply is a failure of the transport, a failure status or a body that
\* does not parse
Fails(reply) ==
    \/ reply.kind = "transport_error"
    \/ reply.kind = "response" /\ (reply.status >= 400 \/ ~reply.parseable)

FailureOf(reply) ==
    IF reply.kind = "transport_error" THEN HttpFailure ELSE DecodeFailure

\* the script ends the call at request Len(pages) + 1 with an empty page
EndsByEmptyPage(srv) ==
    /\ srv.tail = "empty"
    /\ srv.failAt = 0 \/ srv.failAt > Len(srv.pages) + 1

\* C1: against a server serving k non-empty pages and then an empty one,
\* list_all_pull_requests issues exactly k+1 GET requests, every one with
\* $top=100, the i-th with $skip=100*(i-1) whatever the sizes of the earlier
\* pages, and none after the first empty page.
C1_RequestsTopSkip ==
    IsList =>
        /\ \A i \in 1..Len(requests) :
              /\ requests[i].verb = "GET"
              /\ requests[i].url.query.top = 100
              /\ requests[i].url.query.skip = 100 * (i - 1)
        /\ \A i \in 1..Len(extracted) :
              Len(extracted[i]) = 0 =>
                  i = Len(extracted) /\ Len(requests) = i /\ pc = "returned"
        /\ EndsByEmptyPage(server) =>
              /\ Len(requests) <= Len(server.pages) + 1
              /\ pc = "returned" <=> Len(requests) = Len(server.pages) + 1
              /\ pc # "raised"

C1_Witness ==
    /\ IsList
    /\ pc = "returned"
    /\ server.pages = <<100, 100, 37>>
    /\ Len(requests) = 4
    /\ requests[3].url.query.skip = 200
    /\ requests[4].url.query.skip = 300

RECURSIVE ConcatServed(_, _)
ConcatServed(srv, k) ==
    IF k = 0 THEN <<>> ELSE ConcatServed(srv, k - 1) \o ServedPage(srv, k)

RECURSIVE SumOfLengths(_)
SumOfLengths(pages) ==
    IF pages = <<>> THEN 0 ELSE Len(Head(pages)) + SumOfLengths(Tail(pages))

\* C2: the value list_all_pull_requests returns is the concatenation, in
\* request order, of the pages received before the terminating empty page;
\* its length is the sum of the page lengths.
C2_ResultIsConcatenation ==
    (IsList /\ pc = "returned") =>
        /\ result = Some(ConcatServed(server, Len(requests) - 1))
        /\ Len(result[1]) = SumOfLengths(extracted)
        /\ \A i \in 1..Len(extracted) : extracted[i] = ServedPage(server, i)

C2_Witness ==
    /\ IsList
    /\ pc = "returned"
    /\ server.pages = <<100, 100, 37>>
    /\ Len(result[1]) = 237
    /\ result[1][201] = <<3, 1>>

\* C3: when the GET or the decode of a page raises, the call fails with that
\* exception, returns nothing of the pages fetched before, and issues no
\* request after the failing one.
C3_PageFailureFailsCall ==
    (IsList /\ server.failAt \in 1..Len(requests)) =>
        /\ Len(requests) = server.failAt
        /\ pc = "raised"
        /\ exception = Some(FailureOf(server.failReply))
        /\ result = None

C3_Witness ==
    /\ IsList
    /\ pc = "raised"
    /\ server.failAt = 2
    /\ Len(server.pages) = 3
    /\ all_prs # <<>>
    /\ exception = Some(DecodeFailure)

\* C4: verify_access returns TRUE when get, decode and extract complete,
\* FALSE when the HTTP client raises an Http- or Decode-failure, and never
\* raises.
C4_VerifyAccessBoolean ==
    op = "verify_access" =>
        /\ pc = "returned"
        /\ exception = None
        /\ Len(requests) = 1
        /\ result = Some(~Fails(args.reply))

C4_Witness ==
    /\ op = "verify_access"
    /\ args.reply = TransportError
    /\ result = Some(FALSE)

ExpectedKeys(a) ==
    {"sourceRefName", "targetRefName"}
        \cup (IF a.title = None THEN {} ELSE {"title"})
        \cup (IF a.description = None THEN {} ELSE {"description"})
        \cup (IF a.reviewer_ids = None \/ a.reviewer_ids = Some(<<>>)
              THEN {} ELSE {"reviewers"})

\* C5: the body create_pull_request posts has exactly sourceRefName and
\* targetRefName (canonicalized), title and description only when given,
\* reviewers as the {id: x} objects of a non-empty reviewer_ids in the same
\* order, and for reviewer_ids = [] the same body as for reviewer_ids unset.
C5_RequestBody ==
    op = "create_pull_request" =>
        LET body == requests[1].json_data
        IN  /\ DOMAIN body = ExpectedKeys(args)
            /\ startswith(body.sourceRefName, Prefix)
            /\ body.sourceRefName \in {args.source_branch, Prefix \o args.source_branch}
            /\ startswith(body.targetRefName, Prefix)
            /\ body.targetRefName \in {args.target_branch, Prefix \o args.target_branch}
            /\ args.title # None => body.title = args.title[1]
            /\ args.description # None => body.description = args.description[1]
            /\ "reviewers" \in DOMAIN body =>
                  /\ Len(body.reviewers) = Len(args.reviewer_ids[1])
                  /\ \A i \in 1..Len(body.reviewers) :
                        body.reviewers[i] = [id |-> args.reviewer_ids[1][i]]
            /\ args.reviewer_ids = Some(<<>>) =>
                  body = RequestBody(args.source_branch, args.target_branch,
                                     args.title, args.description, None)

C5_Witness ==
    /\ op = "create_pull_request"
    /\ args.reviewer_ids = Some(<<>>)
    /\ args.title # None
    /\ DOMAIN requests[1].json_data = {"sourceRefName", "targetRefName", "title"}

\* C6: canonicalizing the canonical form of any branch name gives the
\* canonical form again.
C6_Idempotent ==
    op = "canonicalize" => _canonicalize_branch_name(result[1]) = result[1]

C6_Witness ==
    /\ op = "canonicalize"
    /\ args.branch_name = SubSeq(Prefix, 1, 10)
    /\ result = Some(Prefix \o SubSeq(Prefix, 1, 10))

BeginsWithRefsHeads(s) ==
    /\ Len(s) >= 11
    /\ \A i \in 1..11 : s[i] = Prefix[i]

\* C7: the canonical form of s is "refs/heads/" + s when s does not start
\* with "refs/heads/" and s itself when it does, so it always starts with
\* "refs/heads/".
C7_PrefixOrUnchanged ==
    op = "canonicalize" =>
        /\ BeginsWithRefsHeads(result[1])
        /\ IF BeginsWithRefsHeads(args.branch_name)
           THEN result[1] = args.branch_name
           ELSE result[1] = Prefix \o args.branch_name

C7_Witness ==
    /\ op = "canonicalize"
    /\ args.branch_name = Main
    /\ result = Some(Prefix \o Main)

\* C8: create_pull_request issues exactly one POST; when the POST or the
\* decode raises, that exception reaches the caller and nothing is returned;
\* otherwise the decoded response is returned.
C8_OnePostNoRetry ==
    op = "create_pull_request" =>
        /\ Len(requests) = 1
        /\ requests[1].verb = "POST"
        /\ IF Fails(args.reply)
           THEN /\ pc = "raised"
                /\ exception = Some(FailureOf(args.reply))
                /\ result = None
           ELSE /\ pc = "returned"
                /\ exception = None
                /\ result = Some(args.reply.body)

C8_Witness ==
    /\ op = "create_pull_request"
    /\ pc = "raised"
    /\ args.reply.kind = "response"
    /\ args.reply.status = 500
    /\ exception = Some(DecodeFailure)

\* C9: custom_get issues exactly one GET on the URL made of base_url(flags),
\* the fragment and the encoded parameters, decodes nothing, and returns the
\* raw response as it is, a response with a failure status included.
C9_CustomGetRaw ==
    op = "custom_get" =>
        /\ Len(requests) = 1
        /\ requests[1].verb = "GET"
        /\ requests[1].url =
              [base |-> base_url(args.is_default_collection, args.is_project,
                                 args.is_internal),
               path |-> args.url_fragment,
               query |-> urlencode(args.parameters)]
        /\ decodes = 0
        /\ args.reply.kind = "response" =>
              /\ pc = "returned"
              /\ result = Some(args.reply)
              /\ exception = None

C9_Witness ==
    /\ op = "custom_get"
    /\ args.reply.kind = "response"
    /\ args.reply.status = 500
    /\ pc = "returned"
    /\ result = Some(args.reply)
    /\ args.is_internal

\* the fake server makes the call end: it fails within the requests the
\* model follows, or it serves an empty page after its script
WillEnd(srv) == srv.tail = "empty" \/ srv.failAt \in 1..MaxRequests

\* C10: list_all_pull_requests ends exactly when a request fails or a page is
\* empty: it returns only after an empty page and raises only after a failed
\* request, it ends under every server that fails or serves an empty page,
\* and under a server that never does it stays in the loop, every iteration
\* raising $skip.
C10_TerminatesIffEmptyOrFailure ==
    /\ []((IsList /\ pc = "returned") =>
            (Len(extracted) > 0 /\ Len(extracted[Len(extracted)]) = 0))
    /\ []((IsList /\ pc = "raised") =>
            (Len(requests) > 0 /\ Fails(ServerReply(server, Len(requests)))))
    /\ []((IsList /\ ~WillEnd(server)) =>
            (pc = "list_loop" /\ offset = 100 * Len(requests)))
    /\ [][(pc = "list_loop" /\ pc' = "list_loop") => offset' > offset]_vars
    /\ ((IsList /\ WillEnd(server)) ~> (pc \in {"returned", "raised"}))

C10_Witness ==
    /\ IsList
    /\ server.tail = "nonempty"
    /\ server.failAt = 0
    /\ pc = "list_loop"
    /\ Len(requests) = MaxRequests
    /\ offset = 100 * MaxRequests

====
